---- MODULE Spec2Model ----
(***************************************************************************)
(* Model of the donor identity resolution engine of src/main.py:           *)
(* name-variant expansion, paginated retrieval (fetch_all_pages), the      *)
(* merge loop of get_contributions and cluster_records.                    *)
(*                                                                         *)
(* Text (names, cities, employers, occupations, state codes) is a tuple of *)
(* one-character strings, so that case conversion, splitting and the       *)
(* difflib similarity ratio are computed character by character.           *)
(***************************************************************************)
EXTENDS Integers, Sequences, FiniteSets

VARIABLES
    pc,               \* position of the invocation
    contributor_name, \* request parameter
    state,            \* request parameter after normalize_state (<<>> = None)
    target,           \* request parameters target_city / _employer / _occupation
    name_variants,    \* get_contributions local
    vi,               \* index of the variant the for loop is at
    all_results,      \* fetch_all_pages local
    last_index,       \* fetch_all_pages local
    last_date,        \* fetch_all_pages local
    pages_fetched,    \* fetch_all_pages local
    ledger,           \* the source: replies given so far, by (query, cursor)
    advancing,        \* whether the source only hands out advancing cursors
    requests,         \* page requests issued by the current fetch_all_pages call
    pages,            \* pages received by the current fetch_all_pages call
    n_requests,       \* page requests issued by the whole invocation
    failed,           \* a page request ended in an error
    fetched,          \* results returned by fetch_all_pages, per variant
    seen,             \* get_contributions local
    combined,         \* get_contributions local
    total_count,      \* get_contributions local
    clusters,         \* cluster_records local
    matched,          \* first value returned by cluster_records
    excluded,         \* second value returned by cluster_records
    response          \* whether get_contributions returned its response

vars == <<pc, contributor_name, state, target, name_variants, vi, all_results,
          last_index, last_date, pages_fetched, ledger, advancing, requests,
          pages, n_requests, failed, fetched, seen, combined, total_count,
          clusters, matched, excluded, response>>

-----------------------------------------------------------------------------
(* Generic helpers on sequences *)

Range(s) == {s[i] : i \in 1..Len(s)}

Min(a, b) == IF a < b THEN a ELSE b

RECURSIVE Flatten(_)
Flatten(ss) == IF ss = <<>> THEN <<>> ELSE Head(ss) \o Flatten(Tail(ss))

Count(s, x) == Cardinality({i \in 1..Len(s) : s[i] = x})

SeqsUpTo(S, n) == UNION {[1..k -> S] : k \in 0..n}

Perms(n) == {p \in [1..n -> 1..n] : \A i, j \in 1..n : p[i] = p[j] => i = j}

-----------------------------------------------------------------------------
(* Python str methods on ASCII text *)

LowerLetters == <<"a","b","c","d","e","f","g","h","i","j","k","l","m",
                  "n","o","p","q","r","s","t","u","v","w","x","y","z">>
UpperLetters == <<"A","B","C","D","E","F","G","H","I","J","K","L","M",
                  "N","O","P","Q","R","S","T","U","V","W","X","Y","Z">>

ToUpper == [c \in Range(LowerLetters) |-> UpperLetters[CHOOSE i \in 1..26 : LowerLetters[i] = c]]
ToLower == [c \in Range(UpperLetters) |-> LowerLetters[CHOOSE i \in 1..26 : UpperLetters[i] = c]]

IsLower(c) == c \in DOMAIN ToUpper
IsUpper(c) == c \in DOMAIN ToLower
IsCased(c) == IsLower(c) \/ IsUpper(c)
IsSpace(c) == c \in {" ", "\t"}

UpperChar(c) == IF IsLower(c) THEN ToUpper[c] ELSE c
LowerChar(c) == IF IsUpper(c) THEN ToLower[c] ELSE c

\* str.upper()
upper(s) == [i \in 1..Len(s) |-> UpperChar(s[i])]

\* str.lower()
lower(s) == [i \in 1..Len(s) |-> LowerChar(s[i])]

\* (mutant of title: only the first character is upper-cased, as capitalize does)
TitleAsCapitalize(s) ==
    [i \in 1..Len(s) |-> IF i = 1 THEN UpperChar(s[i]) ELSE LowerChar(s[i])]

\* str.title(): a cased character is upper-cased after an uncased one (or at
\* the start) and lower-cased after a cased one
title(s) ==
    [i \in 1..Len(s) |->
        IF ~IsCased(s[i]) THEN s[i]
        ELSE IF i = 1 \/ ~IsCased(s[i-1]) THEN UpperChar(s[i]) ELSE LowerChar(s[i])]

\* str.capitalize(): first character upper-cased, the rest lower-cased
capitalize(s) ==
    [i \in 1..Len(s) |-> IF i = 1 THEN UpperChar(s[i]) ELSE LowerChar(s[i])]

\* str.split() with no argument: the maximal runs of non-whitespace
RECURSIVE SplitFrom(_, _, _)
SplitFrom(s, i, cur) ==
    IF i > Len(s) THEN (IF cur = <<>> THEN <<>> ELSE <<cur>>)
    ELSE IF IsSpace(s[i])
         THEN (IF cur = <<>> THEN <<>> ELSE <<cur>>) \o SplitFrom(s, i + 1, <<>>)
         ELSE SplitFrom(s, i + 1, Append(cur, s[i]))

split(s) == SplitFrom(s, 1, <<>>)

\* f"{a}, {b}"
CommaJoin(a, b) == a \o <<",", " ">> \o b

\* the name_variants list of get_contributions
NameVariants(name) ==
    LET base  == <<name, upper(name), lower(name), title(name)>>
        parts == split(name)
    IN  IF (\E i \in 1..Len(name) : name[i] = " ") /\ Len(parts) = 2
        THEN base \o << CommaJoin(parts[2], parts[1]),
                        CommaJoin(upper(parts[2]), upper(parts[1])),
                        CommaJoin(capitalize(parts[2]), capitalize(parts[1])) >>
        ELSE base

-----------------------------------------------------------------------------
(* difflib.SequenceMatcher(None, a, b).ratio(), as called by similarity():  *)
(* no junk, and sequences far below the 200 elements of the autojunk rule.  *)

\* a[i..i+k-1] = b[j..j+k-1], within a[alo..ahi] and b[blo..bhi]
IsBlock(a, alo, ahi, b, blo, bhi, i, j, k) ==
    /\ i >= alo /\ i + k - 1 <= ahi
    /\ j >= blo /\ j + k - 1 <= bhi
    /\ \A t \in 0..(k - 1) : a[i + t] = b[j + t]

\* some block of size k starts at a[i]
BlockAt(a, alo, ahi, b, blo, bhi, i, k) ==
    \E j \in blo..bhi : IsBlock(a, alo, ahi, b, blo, bhi, i, j, k)

\* some block has size k
BlockOfSize(a, alo, ahi, b, blo, bhi, k) ==
    \E i \in alo..ahi : BlockAt(a, alo, ahi, b, blo, bhi, i, k)

\* the sizes of the blocks of a[alo..ahi] and b[blo..bhi]
BlockSizes(a, alo, ahi, b, blo, bhi) ==
    {k \in 1..Min(ahi - alo + 1, bhi - blo + 1) : BlockOfSize(a, alo, ahi, b, blo, bhi, k)}

Largest(sizes) == CHOOSE x \in sizes : \A y \in sizes : y <= x

\* the earliest start in a of a block of size k
FirstInA(a, alo, ahi, b, blo, bhi, k) ==
    CHOOSE x \in alo..ahi :
        /\ BlockAt(a, alo, ahi, b, blo, bhi, x, k)
        /\ \A y \in alo..(x - 1) : ~BlockAt(a, alo, ahi, b, blo, bhi, y, k)

\* the earliest start in b of a block of size k that starts at a[i]
FirstInB(a, alo, ahi, b, blo, bhi, i, k) ==
    CHOOSE x \in blo..bhi :
        /\ IsBlock(a, alo, ahi, b, blo, bhi, i, x, k)
        /\ \A y \in blo..(x - 1) : ~IsBlock(a, alo, ahi, b, blo, bhi, i, y, k)

BlockFrom(a, alo, ahi, b, blo, bhi, i, k) ==
    <<i, FirstInB(a, alo, ahi, b, blo, bhi, i, k), k>>

BlockSized(a, alo, ahi, b, blo, bhi, k) ==
    BlockFrom(a, alo, ahi, b, blo, bhi, FirstInA(a, alo, ahi, b, blo, bhi, k), k)

LongestOf(a, alo, ahi, b, blo, bhi, sizes) ==
    IF sizes = {} THEN <<alo, blo, 0>>
    ELSE BlockSized(a, alo, ahi, b, blo, bhi, Largest(sizes))

\* find_longest_match: the longest block; of those the one starting earliest
\* in a; of those the one starting earliest in b. <<alo, blo, 0>> if none.
LongestMatch(a, alo, ahi, b, blo, bhi) ==
    LongestOf(a, alo, ahi, b, blo, bhi, BlockSizes(a, alo, ahi, b, blo, bhi))

\* get_matching_blocks: total size of the blocks found by matching the
\* longest block m = <<i, j, k>> and then, recursively, the pieces to its
\* left and right
RECURSIVE Matches(_, _, _, _, _, _)
RECURSIVE MatchesAround(_, _, _, _, _, _, _)
MatchesAround(a, alo, ahi, b, blo, bhi, m) ==
    IF m[3] = 0 THEN 0
    ELSE m[3] + Matches(a, alo, m[1] - 1, b, blo, m[2] - 1)
              + Matches(a, m[1] + m[3], ahi, b, m[2] + m[3], bhi)

Matches(a, alo, ahi, b, blo, bhi) ==
    IF alo > ahi \/ blo > bhi THEN 0
    ELSE MatchesAround(a, alo, ahi, b, blo, bhi, LongestMatch(a, alo, ahi, b, blo, bhi))

\* ratio(): 2.0 * matches / (len(a) + len(b)), as the fraction <<num, den>>
Ratio(a, b) == << 2 * Matches(a, 1, Len(a), b, 1, Len(b)), Len(a) + Len(b) >>

\* similarity(a, b): 0 when either text is empty or absent
similarity(a, b) ==
    IF a = <<>> \/ b = <<>> THEN <<0, 1>> ELSE Ratio(lower(a), lower(b))

\* fraction q > n/10
Exceeds(q, tenths) == q[1] * 10 > tenths * q[2]

\* round(x, 3) of the fraction n/d >= 0, in thousandths (ties to even)
Round3(n, d) ==
    LET lo  == (1000 * n) \div d
        rem == (1000 * n) % d
    IN  IF 2 * rem > d THEN lo + 1
        ELSE IF 2 * rem < d THEN lo
        ELSE IF lo % 2 = 0 THEN lo ELSE lo + 1

\* weights of match_confidence, in tenths
WeightCity == 4
WeightEmployer == 3
WeightOccupation == 3

\* score / count of match_confidence for the similarities c, e, o (fractions)
\* and the weights of the attributes the target gives, rounded to thousandths
Weighted(c, e, o, wc, we, wo) ==
    IF wc + we + wo > 0
    THEN Round3(wc * c[1] * e[2] * o[2] + we * e[1] * c[2] * o[2] + wo * o[1] * c[2] * e[2],
                (wc + we + wo) * c[2] * e[2] * o[2])
    ELSE 0

\* the term of one attribute: nothing when the target does not give it
Term(have, want) == IF want # <<>> THEN similarity(have, want) ELSE <<0, 1>>
Weight(want, w) == IF want # <<>> THEN w ELSE 0

\* match_confidence(record, target_city, target_employer, target_occupation),
\* rounded as cluster_records stores it: in thousandths
match_confidence(r, tg) ==
    Weighted(Term(r.contributor_city, tg.city),
             Term(r.contributor_employer, tg.employer),
             Term(r.contributor_occupation, tg.occupation),
             Weight(tg.city, WeightCity),
             Weight(tg.employer, WeightEmployer),
             Weight(tg.occupation, WeightOccupation))

-----------------------------------------------------------------------------
(* cluster_records *)

\* a calendar date <<year, month, day>> that strptime("%Y-%m-%d") accepts
IsLeap(y) == (y % 4 = 0 /\ y % 100 # 0) \/ y % 400 = 0

DaysIn(y, m) ==
    IF m = 2 THEN (IF IsLeap(y) THEN 29 ELSE 28)
    ELSE IF m \in {4, 6, 9, 11} THEN 30 ELSE 31

ValidDate(d) ==
    /\ Len(d) = 3
    /\ d[1] \in 1..9999
    /\ d[2] \in 1..12
    /\ d[3] \in 1..DaysIn(d[1], d[2])

\* datetime.min
DateMin == <<1, 1, 1>>

\* safe_date(r): the parsed date, datetime.min when it is missing or unparsable
safe_date(r) ==
    IF ValidDate(r.contribution_receipt_date) THEN r.contribution_receipt_date ELSE DateMin

DateLess(d, e) ==
    \/ d[1] < e[1]
    \/ d[1] = e[1] /\ d[2] < e[2]
    \/ d[1] = e[1] /\ d[2] = e[2] /\ d[3] < e[3]

EarlierDate(r, q) == DateLess(safe_date(r), safe_date(q))

\* x goes before the first element of s that is later than x, i.e. s[i..]
InsertAt(s, x, later) ==
    IF later = {} THEN Append(s, x)
    ELSE LET i == CHOOSE k \in later : \A m \in later : k <= m
         IN  SubSeq(s, 1, i - 1) \o <<x>> \o SubSeq(s, i, Len(s))

RECURSIVE InsertByDate(_, _)
InsertByDate(s, acc) ==
    IF s = <<>> THEN acc
    ELSE InsertByDate(Tail(s), InsertAt(acc, Head(s), {i \in 1..Len(acc) : EarlierDate(Head(s), acc[i])}))

\* (mutant of SortByDate: the records are left in the order given)
Unsorted(records) == records

\* sorted(records, key=safe_date)
SortByDate(records) == InsertByDate(records, <<>>)

\* the continuity test of the scan, r against the record before it
Continuity(r, last) ==
    \/ Exceeds(similarity(r.contributor_city, last.contributor_city), 6)
    \/ Exceeds(similarity(r.contributor_employer, last.contributor_employer), 7)
    \/ Exceeds(similarity(r.contributor_occupation, last.contributor_occupation), 7)

\* (mutant of Scan: continuity is tested against the first record of the
\* current cluster)
RECURSIVE ScanAgainstFirst(_, _, _, _)
ScanAgainstFirst(recs, i, done, cur) ==
    IF i > Len(recs) THEN Append(done, cur)
    ELSE IF Continuity(recs[i], cur[1])
         THEN ScanAgainstFirst(recs, i + 1, done, Append(cur, recs[i]))
         ELSE ScanAgainstFirst(recs, i + 1, Append(done, cur), <<recs[i]>>)

\* the scan: done holds the closed clusters, cur the current one
RECURSIVE Scan(_, _, _, _)
Scan(recs, i, done, cur) ==
    IF i > Len(recs) THEN Append(done, cur)
    ELSE IF Continuity(recs[i], recs[i - 1])
         THEN Scan(recs, i + 1, done, Append(cur, recs[i]))
         ELSE Scan(recs, i + 1, Append(done, cur), <<recs[i]>>)

\* the clusters list of cluster_records, for a non-empty sorted list
Clusters(recs) == Scan(recs, 2, <<>>, <<recs[1]>>)

\* a record with the score cluster_records stores on it
Scored(r, tg) == [rec |-> r, match_confidence |-> match_confidence(r, tg)]

RECURSIVE SumConfidence(_)
SumConfidence(c) ==
    IF c = <<>> THEN 0 ELSE Head(c).match_confidence + SumConfidence(Tail(c))

\* (mutant of HigherAverage: a later cluster of equal average goes first)
NotLowerAverage(c, d) == SumConfidence(c) * Len(d) >= SumConfidence(d) * Len(c)

\* avg_conf of cluster c is larger than that of cluster d
HigherAverage(c, d) == SumConfidence(c) * Len(d) > SumConfidence(d) * Len(c)

RECURSIVE InsertByAverage(_, _)
InsertByAverage(cs, acc) ==
    IF cs = <<>> THEN acc
    ELSE InsertByAverage(Tail(cs), InsertAt(acc, Head(cs), {i \in 1..Len(acc) : HigherAverage(Head(cs), acc[i])}))

\* scored_clusters.sort(reverse=True, key=avg_conf): stable, largest first
SortByAverage(cs) == InsertByAverage(cs, <<>>)

\* (mutant of Excluded: the slice starts one cluster too late)
ExcludedFromThird(ranked) ==
    IF Len(ranked) < 3 THEN <<>> ELSE Flatten(SubSeq(ranked, 3, Len(ranked)))

\* [r for _, c in scored_clusters[1:] for r in c]
Excluded(ranked) == Flatten(Tail(ranked))

Flagged(c, flag) ==
    [i \in 1..Len(c) |-> [rec |-> c[i].rec,
                          match_confidence |-> c[i].match_confidence,
                          likely_same_person |-> flag]]

\* every record of every cluster with its score
ScoreClusters(cl, tg) ==
    [k \in 1..Len(cl) |-> [i \in 1..Len(cl[k]) |-> Scored(cl[k][i], tg)]]

\* best cluster and the rest, from the clusters ranked by average confidence
Resolve(cl, ranked) ==
    [matched  |-> Flagged(ranked[1], TRUE),
     excluded |-> Flagged(Excluded(ranked), FALSE),
     clusters |-> cl]

ResolveClusters(cl, tg) == Resolve(cl, SortByAverage(ScoreClusters(cl, tg)))

\* cluster_records(records, target...): the values returned, and the clusters
\* list as it stands after the scan
ClusterRecords(records, tg) ==
    IF records = <<>> THEN [matched |-> <<>>, excluded |-> <<>>, clusters |-> <<>>]
    ELSE ResolveClusters(Clusters(SortByDate(records)), tg)

-----------------------------------------------------------------------------
(* Records, and the values the model draws them from *)

None == "None"
NoText == <<>>

Row(cid, tid, date, city, employer, occupation, st) ==
    [committee_id |-> cid, transaction_id |-> tid,
     contribution_receipt_date |-> date,
     contributor_city |-> city, contributor_employer |-> employer,
     contributor_occupation |-> occupation, contributor_state |-> st]

Jan1 == <<2020, 1, 1>>
Feb1 == <<2020, 2, 1>>
Feb30 == <<2020, 2, 30>>   \* not a calendar date: unparsable

\* the state filter after normalize_state: None or a code of VALID_STATES
StateFilters == {NoText, <<"M", "A">>}

\* target profiles: none, a city, all three attributes
NoTarget == [city |-> NoText, employer |-> NoText, occupation |-> NoText]
CityTarget == [city |-> <<"a", "b">>, employer |-> NoText, occupation |-> NoText]
FullTarget == [city |-> <<"A", "c">>, employer |-> <<"a">>, occupation |-> <<"a", "b">>]
Targets == {NoTarget, CityTarget, FullTarget}

\* rows of the ledger in the model of a whole invocation: two rows of one
\* date and different cities; two different rows that both lack a
\* transaction id, one of them with no date and from another state; and a
\* row of another committee and another state
LedgerRows ==
    { Row("C1", None, Jan1, <<"a", "b">>, NoText, NoText, <<"m", "a">>),
      Row("C1", "T2", Jan1, <<"c", "d">>, NoText, NoText, <<"M", "A">>),
      Row("C1", None, NoText, <<"a", "b">>, NoText, NoText, <<"N", "Y">>),
      Row("C2", "T2", Feb1, <<"c", "d">>, NoText, NoText, <<"N", "Y">>) }

\* records handed to cluster_records in the model of cluster_records alone:
\* dates, one of them unparsable, and <<city, employer, occupation>> profiles.
\* Similarities: "ab"/"a" and "a"/"Ac" 2/3, "ab"/"Ac" 1/2, equal texts 1,
\* an empty text against anything 0.
ClusterDates == {Feb30, Jan1, Feb1}
ClusterProfiles ==
    { << <<"a", "b">>, <<"a", "b">>, NoText >>,
      << <<"a">>,      <<"a">>,      NoText >>,
      << <<"A", "c">>, NoText,       <<"a", "b">> >>,
      << NoText,       <<"a">>,      <<"a", "b">> >> }

\* the longest record sequence handed to cluster_records
MaxRecords == 3

\* deduplicated sequences of at most n records: record i carries transaction id i
ClusterInputs(n) ==
    UNION { { [i \in 1..k |-> Row("C1", i, f[i][1], f[i][2][1], f[i][2][2], f[i][2][3], <<"M", "A">>)] :
                f \in [1..k -> ClusterDates \X ClusterProfiles] } :
            k \in 0..n }

\* display names: text over a small alphabet, and the name of the scenario
NameAlphabet == {"a", "B", " ", "\t"}
MaxNameLen == 3
JeffLyons == <<"J", "e", "f", "f", " ", "L", "y", "o", "n", "s">>
DisplayNames == (SeqsUpTo(NameAlphabet, MaxNameLen) \ {<<>>}) \cup {JeffLyons}

-----------------------------------------------------------------------------
(* The source: a paginated ledger, fixed per (query string, cursor) *)

MAX_PAGES == 20

\* Python truthiness of a cursor component: None and "" are falsy
Truthy(x) == x \notin {None, ""}

NoCursor == <<None, None>>

CursorIndexes == {"1", "2"}

\* the pages a well-behaved source holds for one query string, at most
MaxLedgerPages == 2

\* the last_index a well-behaved source hands out with its k-th page
IndexOfPage == <<"1", "2", "3", "4", "5", "6", "7", "8", "9">>

\* the page a request with this cursor asks for
PageNumber(cursor) ==
    IF cursor = NoCursor THEN 1
    ELSE 1 + (CHOOSE k \in 1..Len(IndexOfPage) : cursor[1] = IndexOfPage[k])

\* a page of the source holds no row or one row
PageChoices == {<<>>} \cup {<<r>> : r \in LedgerRows}

\* a reply: the "results" list and pagination.last_indexes, which is absent,
\* null, or an object with last_index and last_contribution_receipt_date
Reply(results, kind, li, ld) ==
    [results |-> results, kind |-> kind, last_index |-> li, last_date |-> ld]

\* replies of a well-behaved source: the cursor of page k is index k, and the
\* last page carries none
AdvancingReplies(cursor) ==
    {Reply(p, "absent", None, None) : p \in PageChoices}
    \cup {Reply(p, "cursor", IndexOfPage[PageNumber(cursor)], "d") :
            p \in {q \in PageChoices : q # <<>> /\ PageNumber(cursor) < MaxLedgerPages}}

\* replies of any source: any page with any pagination, complete or not
ArbitraryReplies ==
    {Reply(<<>>, "absent", None, None)}
    \cup {Reply(p, k, None, None) : p \in PageChoices \ {<<>>}, k \in {"absent", "null"}}
    \cup {Reply(p, "cursor", li, ld) :
            p \in PageChoices \ {<<>>},
            li \in CursorIndexes \cup {None, ""}, ld \in {None, "d"}}

\* the replies the source may give to a request it has not seen before
NewReplies(cursor) == IF advancing THEN AdvancingReplies(cursor) ELSE ArbitraryReplies

\* the reply the source has already given to this request, if any
Known(query, cursor) == {e \in ledger : e[1] = query /\ e[2] = cursor}

-----------------------------------------------------------------------------
(* get_contributions: the merge loop *)

\* (mutant of uid: the key leaves out the transaction id)
CommitteeOnly(r) == <<r.committee_id>>

\* uid = (r.get("committee_id"), r.get("transaction_id"))
uid(r) == <<r.committee_id, r.transaction_id>>

\* not state or r.get("contributor_state", "").upper() == state
StateMatches(r, st) == st = NoText \/ upper(r.contributor_state) = st

\* (mutant of MergeVariant: the seen set is not consulted)
RECURSIVE MergeUnseen(_, _, _, _)
MergeUnseen(sn, cmb, results, st) ==
    IF results = <<>> THEN [seen |-> sn, combined |-> cmb]
    ELSE LET r == Head(results)
         IN  MergeUnseen(sn \cup {uid(r)},
                         IF StateMatches(r, st) THEN Append(cmb, r) ELSE cmb,
                         Tail(results), st)

\* the loop over one variant's results: the seen set and the combined list
RECURSIVE MergeVariant(_, _, _, _)
MergeVariant(sn, cmb, results, st) ==
    IF results = <<>> THEN [seen |-> sn, combined |-> cmb]
    ELSE LET r == Head(results)
         IN  IF uid(r) \notin sn
             THEN MergeVariant(sn \cup {uid(r)},
                               IF StateMatches(r, st) THEN Append(cmb, r) ELSE cmb,
                               Tail(results), st)
             ELSE MergeVariant(sn, cmb, Tail(results), st)

\* the loop over all variants, from the empty seen set and combined list
RECURSIVE MergeFrom(_, _, _, _)
MergeFrom(sn, cmb, perVariant, st) ==
    IF perVariant = <<>> THEN cmb
    ELSE LET m == MergeVariant(sn, cmb, Head(perVariant), st)
         IN  MergeFrom(m.seen, m.combined, Tail(perVariant), st)

MergeAll(perVariant, st) == MergeFrom({}, <<>>, perVariant, st)

-----------------------------------------------------------------------------
(* Actions *)

\* names of whole invocations in the model
QueryNames == {<<"a">>}

FetchLocalsCleared ==
    /\ all_results' = <<>>
    /\ last_index' = None
    /\ last_date' = None
    /\ pages_fetched' = 0
    /\ requests' = <<>>
    /\ pages' = <<>>

\* get_contributions, lines 216-234: name_variants, seen, combined, total_count
ExpandVariants ==
    /\ pc = "start"
    /\ name_variants' = NameVariants(contributor_name)
    /\ vi' = 1
    /\ seen' = {}
    /\ combined' = <<>>
    /\ total_count' = 0
    /\ pc' = "for"
    /\ UNCHANGED <<contributor_name, state, target, all_results, last_index, last_date,
                   pages_fetched, ledger, advancing, requests, pages, n_requests,
                   failed, fetched, clusters, matched, excluded, response>>

\* the for loop calls fetch_all_pages for the next variant
CallFetch ==
    /\ pc = "for"
    /\ vi <= Len(name_variants)
    /\ FetchLocalsCleared
    /\ pc' = "while"
    /\ UNCHANGED <<contributor_name, state, target, name_variants, vi, ledger, advancing,
                   n_requests, failed, fetched, seen, combined, total_count,
                   clusters, matched, excluded, response>>

\* (mutant of CeilingOpen: the ceiling is tested one page late)
CeilingOffByOne == pages_fetched <= MAX_PAGES

\* while pages_fetched < MAX_PAGES
CeilingOpen == pages_fetched < MAX_PAGES

\* (mutant of SentCursor: the cursor is never put into the parameters)
CursorDropped(li, ld) == NoCursor

\* the cursor a request carries: if last_index and last_date
SentCursor(li, ld) == IF Truthy(li) /\ Truthy(ld) THEN <<li, ld>> ELSE NoCursor

\* requests.get(BASE_URL, params=params) is issued
IssueRequest ==
    /\ pc = "while"
    /\ CeilingOpen
    /\ requests' = Append(requests, SentCursor(last_index, last_date))
    /\ n_requests' = n_requests + 1
    /\ pc' = "await"
    /\ UNCHANGED <<contributor_name, state, target, name_variants, vi, all_results,
                   last_index, last_date, pages_fetched, ledger, advancing, pages,
                   failed, fetched, seen, combined, total_count, clusters, matched,
                   excluded, response>>

\* the while condition fails: return all_results
LoopCeiling ==
    /\ pc = "while"
    /\ ~CeilingOpen
    /\ pc' = "return"
    /\ UNCHANGED <<contributor_name, state, target, name_variants, vi, all_results,
                   last_index, last_date, pages_fetched, ledger, advancing, requests,
                   pages, n_requests, failed, fetched, seen, combined, total_count,
                   clusters, matched, excluded, response>>

\* (mutant of RequestFails: the error is swallowed and the pages so far are
\* returned)
RequestFailsSwallowed ==
    /\ pc = "await"
    /\ failed' = TRUE
    /\ pc' = "return"
    /\ UNCHANGED <<contributor_name, state, target, name_variants, vi, all_results,
                   last_index, last_date, pages_fetched, ledger, advancing, requests,
                   pages, n_requests, fetched, seen, combined, total_count,
                   clusters, matched, excluded, response>>

\* requests.get raises (transport error) or raise_for_status raises (non-success
\* response): nothing catches it in fetch_all_pages or in get_contributions
RequestFails ==
    /\ pc = "await"
    /\ failed' = TRUE
    /\ pc' = "raised"
    /\ UNCHANGED <<contributor_name, state, target, name_variants, vi, all_results,
                   last_index, last_date, pages_fetched, ledger, advancing, requests,
                   pages, n_requests, fetched, seen, combined, total_count,
                   clusters, matched, excluded, response>>

\* where fetch_all_pages goes after a reply, lines 85-97
AfterReply(reply) ==
    IF reply.results = <<>> THEN "return"
    ELSE IF reply.kind = "null" THEN "raised"
    ELSE IF ~Truthy(reply.last_index) \/ ~Truthy(reply.last_date) THEN "return"
    ELSE "while"

\* a successful reply is handled, lines 84-99
ReceivePage ==
    /\ pc = "await"
    /\ LET query  == name_variants[vi]
           cursor == requests[Len(requests)]
       IN  \E reply \in IF Known(query, cursor) = {}
                        THEN NewReplies(cursor)
                        ELSE {e[3] : e \in Known(query, cursor)} :
             /\ ledger' = ledger \cup {<<query, cursor, reply>>}
             /\ pages' = Append(pages, reply)
             /\ pc' = AfterReply(reply)
             /\ IF reply.results = <<>>
                THEN UNCHANGED <<all_results, pages_fetched, last_index, last_date>>
                ELSE /\ all_results' = all_results \o reply.results
                     /\ pages_fetched' = pages_fetched + 1
                     /\ IF reply.kind = "null"
                        THEN UNCHANGED <<last_index, last_date>>
                        ELSE /\ last_index' = reply.last_index
                             /\ last_date' = reply.last_date
    /\ UNCHANGED <<contributor_name, state, target, name_variants, vi, advancing,
                   requests, n_requests, failed, fetched, seen, combined, total_count,
                   clusters, matched, excluded, response>>

\* fetch_all_pages has returned: lines 243-249, and the loop moves on
MergeResults ==
    /\ pc = "return"
    /\ LET m == MergeVariant(seen, combined, all_results, state)
       IN  /\ seen' = m.seen
           /\ combined' = m.combined
    /\ total_count' = total_count + Len(all_results)
    /\ fetched' = Append(fetched, all_results)
    /\ vi' = vi + 1
    /\ FetchLocalsCleared
    /\ pc' = "for"
    /\ UNCHANGED <<contributor_name, state, target, name_variants, ledger, advancing,
                   n_requests, failed, clusters, matched, excluded, response>>

\* the loop is over: cluster_records and the response, lines 252-338
ClusterAndRespond ==
    /\ pc = "for"
    /\ vi > Len(name_variants)
    /\ LET res == ClusterRecords(combined, target)
       IN  /\ clusters' = res.clusters
           /\ matched' = res.matched
           /\ excluded' = res.excluded
    /\ response' = TRUE
    /\ pc' = "done"
    /\ UNCHANGED <<contributor_name, state, target, name_variants, vi, all_results,
                   last_index, last_date, pages_fetched, ledger, advancing, requests,
                   pages, n_requests, failed, fetched, seen, combined, total_count>>

-----------------------------------------------------------------------------
(* Specifications *)

Blank ==
    /\ all_results = <<>>
    /\ last_index = None
    /\ last_date = None
    /\ pages_fetched = 0
    /\ ledger = {}
    /\ requests = <<>>
    /\ pages = <<>>
    /\ n_requests = 0
    /\ failed = FALSE
    /\ fetched = <<>>
    /\ seen = {}
    /\ combined = <<>>
    /\ total_count = 0
    /\ clusters = <<>>
    /\ matched = <<>>
    /\ excluded = <<>>
    /\ response = FALSE

\* a whole invocation of get_contributions against a well-behaved source
Init ==
    /\ pc = "start"
    /\ contributor_name \in QueryNames
    /\ state \in StateFilters
    /\ target \in {NoTarget, CityTarget}
    /\ name_variants = <<>>
    /\ vi = 1
    /\ advancing = TRUE
    /\ Blank

\* (a source of at most MaxLedgerPages pages never lets the loop reach its
\* ceiling: that exit is in SpecFetch)
Next ==
    \/ ExpandVariants
    \/ CallFetch
    \/ IssueRequest
    \/ RequestFails
    \/ ReceivePage
    \/ MergeResults
    \/ ClusterAndRespond

Spec == Init /\ [][Next]_vars

\* one call of fetch_all_pages against any source
InitFetch ==
    /\ pc = "while"
    /\ contributor_name \in QueryNames
    /\ state \in StateFilters
    /\ target = NoTarget
    /\ name_variants = NameVariants(contributor_name)
    /\ vi = 1
    /\ advancing = FALSE
    /\ Blank

NextFetch ==
    \/ IssueRequest
    \/ LoopCeiling
    \/ RequestFails
    \/ ReceivePage

SpecFetch == InitFetch /\ [][NextFetch]_vars

\* cluster_records on any deduplicated record sequence
InitCluster ==
    /\ pc = "for"
    /\ contributor_name \in QueryNames
    /\ state = NoText
    /\ target \in Targets
    /\ name_variants = NameVariants(contributor_name)
    /\ vi = Len(name_variants) + 1
    /\ advancing = TRUE
    /\ all_results = <<>>
    /\ last_index = None
    /\ last_date = None
    /\ pages_fetched = 0
    /\ ledger = {}
    /\ requests = <<>>
    /\ pages = <<>>
    /\ n_requests = 0
    /\ failed = FALSE
    /\ fetched = <<>>
    /\ combined \in ClusterInputs(MaxRecords)
    /\ seen = {uid(combined[i]) : i \in 1..Len(combined)}
    /\ total_count = Len(combined)
    /\ clusters = <<>>
    /\ matched = <<>>
    /\ excluded = <<>>
    /\ response = FALSE

NextCluster == ClusterAndRespond

SpecCluster == InitCluster /\ [][NextCluster]_vars

\* the name variants of any display name
InitNames ==
    /\ pc = "start"
    /\ contributor_name \in DisplayNames
    /\ state = NoText
    /\ target = NoTarget
    /\ name_variants = <<>>
    /\ vi = 1
    /\ advancing = TRUE
    /\ Blank

NextNames == ExpandVariants

SpecNames == InitNames /\ [][NextNames]_vars

-----------------------------------------------------------------------------
(* Properties *)

\* the identity key of a record: (committee identifier, transaction identifier)
IdentityKey(r) == <<r.committee_id, r.transaction_id>>

\* the records of a list returned by cluster_records, without the derived fields
Base(out) == [i \in 1..Len(out) |-> out[i].rec]

\* the per-variant results, merged in the order p
Permute(f, p) == [i \in 1..Len(f) |-> f[p[i]]]

\* the k-th smallest element of a set of numbers
Nth(K, n) == CHOOSE k \in K : Cardinality({m \in K : m <= k}) = n

\* among the results retrieved, records under one identity key are one record
KeysIdentifyRows ==
    \A r, q \in Range(Flatten(fetched)) : IdentityKey(r) = IdentityKey(q) => r = q

\* the merged records have pairwise different sort keys
DatesDistinct ==
    \A i, j \in 1..Len(combined) : i # j => safe_date(combined[i]) # safe_date(combined[j])

\* some order of the variants merges to another sequence than the one built
OrderMatters == \E p \in Perms(Len(fetched)) : MergeAll(Permute(fetched, p), state) # combined

\* C1: the pair returned by cluster_records is an exact partition of its input:
\* every input record occurs exactly once in resolved and excluded together,
\* nothing else occurs in them, and empty input gives two empty sequences.
C1_ExactPartition ==
    pc = "done" =>
        LET both == Base(matched) \o Base(excluded)
        IN  /\ \A r \in Range(combined) \cup Range(both) :
                  Count(both, r) = 1 /\ Count(combined, r) = 1
            /\ combined = <<>> => matched = <<>> /\ excluded = <<>>

C1_Witness ==
    /\ pc = "done"
    /\ Len(combined) >= 3
    /\ matched # <<>>
    /\ Len(excluded) >= 2
    /\ \E i \in 1..Len(combined) : ~ValidDate(combined[i].contribution_receipt_date)

\* C2: the combined list holds no two records with the same (committee_id,
\* transaction_id), and it is the records retrieved, each at the first
\* occurrence of its key across the variants, in that order (less the ones the
\* state filter drops).
C2_NoDuplicateKeys ==
    LET F    == Flatten(fetched)
        kept == {i \in 1..Len(F) :
                    /\ \A j \in 1..(i - 1) : IdentityKey(F[j]) # IdentityKey(F[i])
                    /\ (state = NoText \/ upper(F[i].contributor_state) = state)}
    IN  /\ \A i, j \in 1..Len(combined) :
              i # j => IdentityKey(combined[i]) # IdentityKey(combined[j])
        /\ Len(combined) = Cardinality(kept)
        /\ \A n \in 1..Len(combined) : combined[n] = F[Nth(kept, n)]

C2_Witness ==
    /\ pc = "done"
    /\ Len(combined) >= 2
    /\ \E v \in 1..Len(fetched) : \E i, j \in 1..Len(fetched[v]) :
          i # j /\ IdentityKey(fetched[v][i]) = IdentityKey(fetched[v][j])
    /\ \E v, w \in 1..Len(fetched) :
          v # w /\ fetched[v] # fetched[w] /\ Range(fetched[v]) \cap Range(fetched[w]) # {}

\* C3: one call of fetch_all_pages issues at most MAX_PAGES page requests
\* against any source, receives no more pages than it requested, and is never
\* stuck before it returns or raises: every step issues a request or consumes
\* one, so the call ends.
C3_PageCeiling ==
    /\ Len(requests) <= MAX_PAGES
    /\ Len(pages) <= Len(requests)
    /\ pages_fetched <= Len(pages)
    /\ pc \in {"while", "await"} => ENABLED NextFetch

C3_Witness ==
    /\ pc = "return"
    /\ Len(requests) = MAX_PAGES
    /\ \A k \in 2..Len(requests) : requests[k] = requests[2]
    /\ \A k \in 1..Len(pages) : pages[k] = pages[2]

\* C4: once a page request has failed, the invocation has raised: no result
\* was returned for that query string, no response was built, nothing was
\* clustered, and no further step (so no further request) is taken.
C4_FailureIsFatal ==
    failed =>
        /\ pc = "raised"
        /\ ~response
        /\ Len(fetched) = vi - 1
        /\ matched = <<>> /\ excluded = <<>>
        /\ ~ENABLED Next

C4_Witness ==
    /\ failed
    /\ vi >= 2
    /\ combined # <<>>
    /\ all_results # <<>>

\* C5 as stated: the name variants are pairwise distinct query strings.
C5_VariantsDistinct ==
    pc = "for" =>
        \A i, j \in 1..Len(name_variants) : i # j => name_variants[i] # name_variants[j]

\* C5 as amended: the list is the name, its upper, lower and title forms, then
\* for a name with a space and exactly two tokens the three "Second, First"
\* forms; 4 or 7 entries that may repeat. "Jeff Lyons" gives 7 entries of which
\* 5 are distinct.
C5_VariantForms ==
    pc = "for" =>
        LET nv == name_variants
            two == (\E i \in 1..Len(contributor_name) : contributor_name[i] = " ")
                   /\ Len(split(contributor_name)) = 2
        IN  /\ Len(nv) = IF two THEN 7 ELSE 4
            /\ nv[1] = contributor_name
            /\ \A i \in 1..4 : Len(nv[i]) = Len(contributor_name)
            /\ \A k \in 1..Len(contributor_name) :
                  /\ ~IsLower(nv[2][k]) /\ ~IsUpper(nv[3][k])
                  /\ \A i \in 2..4 : LowerChar(nv[i][k]) = LowerChar(contributor_name[k])
                  /\ IsCased(nv[4][k]) =>
                        (IsUpper(nv[4][k]) <=> (k = 1 \/ ~IsCased(contributor_name[k - 1])))
            /\ contributor_name = JeffLyons =>
                  /\ nv = << JeffLyons,
                             <<"J","E","F","F"," ","L","Y","O","N","S">>,
                             <<"j","e","f","f"," ","l","y","o","n","s">>,
                             JeffLyons,
                             <<"L","y","o","n","s",","," ","J","e","f","f">>,
                             <<"L","Y","O","N","S",","," ","J","E","F","F">>,
                             <<"L","y","o","n","s",","," ","J","e","f","f">> >>
                  /\ Cardinality(Range(nv)) = 5

C5_Witness ==
    /\ pc = "for"
    /\ contributor_name = JeffLyons
    /\ Len(name_variants) = 7
    /\ name_variants[4] = name_variants[1]
    /\ name_variants[7] = name_variants[5]

C7_OrderIndependentSet ==
    pc = "done" =>
        \A p \in Perms(Len(fetched)) :
            Range(MergeAll(Permute(fetched, p), state)) = Range(combined)

\* C7 as amended: when records retrieved under one identity key are one
\* record, the combined output holds the same set of records whatever the
\* order in which the variants' results are merged.
C7_OrderIndependentSetUniqueKeys ==
    pc = "done" /\ KeysIdentifyRows =>
        \A p \in Perms(Len(fetched)) :
            Range(MergeAll(Permute(fetched, p), state)) = Range(combined)

C7_Witness ==
    /\ pc = "done"
    /\ KeysIdentifyRows
    /\ state # NoText
    /\ OrderMatters
    /\ Len(combined) >= 2
    /\ Range(combined) # Range(Flatten(fetched))

\* C8 as stated: whatever the order in which the variants' results are merged,
\* cluster_records returns the same resolved set and the same excluded set.
C8_OrderIndependentResult ==
    pc = "done" =>
        \A p \in Perms(Len(fetched)) :
            LET res == ClusterRecords(MergeAll(Permute(fetched, p), state), target)
            IN  /\ Range(res.matched) = Range(matched)
                /\ Range(res.excluded) = Range(excluded)

\* C8 as amended: when records retrieved under one identity key are one record
\* and the merged records have pairwise different dates (missing and
\* unparsable dates counting as the minimum date), cluster_records returns the
\* same resolved set and the same excluded set whatever the order in which
\* the variants' results are merged.
C8_OrderIndependentResultDistinctDates ==
    pc = "done" /\ KeysIdentifyRows /\ DatesDistinct =>
        \A p \in Perms(Len(fetched)) :
            LET res == ClusterRecords(MergeAll(Permute(fetched, p), state), target)
            IN  /\ Range(res.matched) = Range(matched)
                /\ Range(res.excluded) = Range(excluded)

C8_Witness ==
    /\ pc = "done"
    /\ KeysIdentifyRows
    /\ DatesDistinct
    /\ OrderMatters
    /\ matched # <<>>
    /\ excluded # <<>>

\* C9: the first request of a call carries no cursor; every later request
\* follows a non-empty page with a complete cursor and carries exactly that
\* cursor; a request is outstanding only while its reply is awaited (or it
\* failed); the list returned is the concatenation of the pages received.
C9_CursorChained ==
    /\ Len(requests) - Len(pages) = IF pc = "await" \/ failed THEN 1 ELSE 0
    /\ requests # <<>> => requests[1] = NoCursor
    /\ \A k \in 2..Len(requests) :
          /\ pages[k - 1].results # <<>>
          /\ pages[k - 1].kind = "cursor"
          /\ pages[k - 1].last_index # None /\ pages[k - 1].last_date # None
          /\ requests[k] = <<pages[k - 1].last_index, pages[k - 1].last_date>>
    /\ pc = "return" =>
          all_results = Flatten([k \in 1..Len(pages) |-> pages[k].results])

C9_Witness ==
    /\ pc = "return"
    /\ Len(requests) = 3
    /\ requests[2] # requests[3]
    /\ pages[3].results # <<>>
    /\ pages[3].kind = "cursor"
    /\ pages[3].last_date = None

\* C10: the clusters are contiguous runs of the records in date order
\* (records without a valid date first, equal dates in input order), and two
\* neighbours are in one cluster exactly when city similarity exceeds 0.6 or
\* employer or occupation similarity exceeds 0.7 between them.
C10_ContiguousRuns ==
    pc = "done" /\ combined # <<>> =>
        LET s == Flatten(clusters)
            Linked(r, q) ==
                \/ Exceeds(similarity(r.contributor_city, q.contributor_city), 6)
                \/ Exceeds(similarity(r.contributor_employer, q.contributor_employer), 7)
                \/ Exceeds(similarity(r.contributor_occupation, q.contributor_occupation), 7)
            Pos(r) == CHOOSE i \in 1..Len(combined) : combined[i] = r
            Key(r) == IF ValidDate(r.contribution_receipt_date)
                      THEN r.contribution_receipt_date ELSE DateMin
        IN  /\ Len(s) = Len(combined)
            /\ Range(s) = Range(combined)
            /\ \A i, j \in 1..Len(s) :
                  i < j => \/ DateLess(Key(s[i]), Key(s[j]))
                           \/ Key(s[i]) = Key(s[j]) /\ Pos(s[i]) < Pos(s[j])
            /\ \A k \in 1..Len(clusters) :
                  /\ clusters[k] # <<>>
                  /\ \A i \in 2..Len(clusters[k]) : Linked(clusters[k][i], clusters[k][i - 1])
                  /\ k > 1 => ~Linked(clusters[k][1], clusters[k - 1][Len(clusters[k - 1])])

C10_Witness ==
    /\ pc = "done"
    /\ Len(clusters) = 1
    /\ Len(clusters[1]) = 3
    /\ ~ValidDate(clusters[1][1].contribution_receipt_date)
    /\ ~Continuity(clusters[1][3], clusters[1][1])

====
